---- MODULE Spec2Model ----
(***************************************************************************)
(* A model of rust-image-combiner (src/main.rs): the loader, the size      *)
(* reconciler, the pixel interleaver, the FloatingImage output buffer and  *)
(* the pipeline of main.                                                   *)
(*                                                                         *)
(* Numbers.  A u32 or usize value is a pair <<hi, lo>> of base-65536       *)
(* digits (value = hi * 65536 + lo), so that 32-bit products and their     *)
(* wrap-around are computed exactly.  A u32 has hi < 65536; a usize (64    *)
(* bits on the targets considered) never wraps for the sizes drawn here.   *)
(*                                                                         *)
(* Buffers.  A Vec<u8> of pixel data is [len, cap, pixel]: len bytes that  *)
(* repeat the 4-byte RGBA quadruple `pixel` (the images drawn are of one   *)
(* colour each), in an allocation of cap bytes.  alternate_pixels itself   *)
(* is modelled on explicit byte sequences.                                 *)
(***************************************************************************)
EXTENDS Integers, Sequences, FiniteSets, TLC

\* ------------------------------------------------------------ bounds
\* Small widths and heights drawn for the pure functions (1..MaxDim) and
\* for the files of a pipeline run (1..MaxPipeDim); byte lengths of the
\* explicit buffers given to alternate_pixels; lengths and capacities of
\* the buffers given to set_data, and how many set_data calls are made.
MaxDim == 3
MaxPipeDim == 2
MaxVecLen == 8
MaxDataLen == 9
MaxAssigns == 3

\* ------------------------------------------------------- arithmetic
Base == 256 * 256

ToBig(n) == <<n \div Base, n % Base>>

BigZero == <<0, 0>>

BigLess(a, b) == a[1] < b[1] \/ (a[1] = b[1] /\ a[2] < b[2])

BigLeq(a, b) == a = b \/ BigLess(a, b)

BigAdd(a, b) ==
    LET lo == a[2] + b[2]
    IN  <<a[1] + b[1] + (lo \div Base), lo % Base>>

\* The product of two base-65536 digits, as a number.
Mul16(x, y) ==
    BigAdd(<<((x \div 256) * y) \div 256, (((x \div 256) * y) % 256) * 256>>,
           ToBig((x % 256) * y))

\* The exact product of two numbers (usize arithmetic: no wrap-around at
\* the sizes drawn, where it stays below 2^47).
BigMul(a, b) ==
    <<a[1] * b[1] * Base + a[1] * b[2] + a[2] * b[1] + Mul16(a[2], b[2])[1],
      Mul16(a[2], b[2])[2]>>

\* The carries of a u32 product: the middle digit products `mid` (times
\* 65536) and the low digit product `low`.
U32MulParts(a, b, mid, low) ==
    [ovf |-> \/ (a[1] > 0 /\ b[1] > 0)
             \/ mid[1] > 0
             \/ mid[2] + low[1] >= Base,
     val |-> <<(mid[2] + low[1]) % Base, low[2]>>]

\* A u32 product `a * b`: [ovf |-> the true product does not fit 32 bits,
\* val |-> the product modulo 2^32].
U32MulWrap(a, b) ==
    U32MulParts(a, b, BigAdd(Mul16(a[1], b[2]), Mul16(a[2], b[1])),
                Mul16(a[2], b[2]))

\* A function's outcome: a value, or a panic that unwinds the process.
Returned(v) == [panic |-> FALSE, val |-> v]

Panic == [panic |-> TRUE]

\* Rust's `*` on u32: with overflow checks (the debug profile) an
\* overflowing product panics, without them (the release profile) it wraps.
U32Mul(a, b, checks) ==
    LET m == U32MulWrap(a, b)
    IN  IF m.ovf /\ checks THEN Panic ELSE Returned(m.val)

\* ------------------------------------------------- FloatingImage
NoPixel == <<0, 0, 0, 0>>

\* Vec::with_capacity(n): no elements, an allocation of exactly n bytes.
VecWithCapacity(n) == [len |-> BigZero, cap |-> n, pixel |-> NoPixel]

NoImage == [width |-> BigZero, height |-> BigZero, pixel |-> <<>>]

NoOutput == [width |-> BigZero, height |-> BigZero,
             data |-> [len |-> BigZero, cap |-> BigZero, pixel |-> <<>>],
             name |-> ""]

\* FloatingImage::new with buffer_size = height * width, the 4 bytes of a
\* pixel forgotten.
FloatingImage_new_per_pixel(width, height, name, checks) ==
    LET buffer_size == U32Mul(height, width, checks)
    IN  IF buffer_size.panic THEN Panic
        ELSE Returned([width |-> width, height |-> height,
                       data |-> VecWithCapacity(buffer_size.val),
                       name |-> name])

\* FloatingImage::new: buffer_size = height * width * 4 in u32, then an
\* empty Vec<u8> of that capacity.
FloatingImage_new(width, height, name, checks) ==
    LET hw == U32Mul(height, width, checks)
        buffer_size == IF hw.panic THEN Panic
                       ELSE U32Mul(hw.val, ToBig(4), checks)
    IN  IF buffer_size.panic THEN Panic
        ELSE Returned([width |-> width, height |-> height,
                       data |-> VecWithCapacity(buffer_size.val),
                       name |-> name])

\* Result<_, ImageDataErrors>: the variant and what it carries.
Ok == [ok |-> TRUE, err |-> "None", ctx |-> ""]

Err(e, ctx) == [ok |-> FALSE, err |-> e, ctx |-> ctx]

\* FloatingImage::set_data: [res |-> the Result, self |-> the image after].
set_data(self, data) ==
    IF BigLess(self.data.cap, data.len)
    THEN [res |-> Err("BufferTooSmall", ""), self |-> self]
    ELSE [res |-> Ok, self |-> [self EXCEPT !.data = data]]

\* ------------------------------------------------- SizeReconciler
dimensions(image) == <<image.width, image.height>>

\* get_smallest_dimensions with `<=` for `<`: the first argument would win a
\* tie.
get_smallest_dimensions_leq(dim_1, dim_2, checks) ==
    LET pix_1 == U32Mul(dim_1[1], dim_1[2], checks)
        pix_2 == U32Mul(dim_2[1], dim_2[2], checks)
    IN  IF pix_1.panic \/ pix_2.panic THEN Panic
        ELSE Returned(IF BigLeq(pix_1.val, pix_2.val) THEN dim_1 ELSE dim_2)

get_smallest_dimensions(dim_1, dim_2, checks) ==
    LET pix_1 == U32Mul(dim_1[1], dim_1[2], checks)
        pix_2 == U32Mul(dim_2[1], dim_2[2], checks)
    IN  IF pix_1.panic \/ pix_2.panic THEN Panic
        ELSE Returned(IF BigLess(pix_1.val, pix_2.val) THEN dim_1 ELSE dim_2)

\* DynamicImage::resize_exact with the Nearest filter: exactly the asked
\* dimensions; every sample is a sample of the source, so an image of one
\* colour keeps it.
resize_exact(image, width, height) ==
    [image EXCEPT !.width = width, !.height = height]

standardize_size(image_1, image_2, checks) ==
    LET d == get_smallest_dimensions(dimensions(image_1), dimensions(image_2),
                                     checks)
    IN  IF d.panic THEN Panic
        ELSE Returned(<<resize_exact(image_1, d.val[1], d.val[2]),
                        resize_exact(image_2, d.val[1], d.val[2])>>)

\* ---------------------------------------------------- Interleaver
\* The loop of alternate_pixels from index i on (0-based, as in the code),
\* on explicit byte sequences; vec_2[i] past the end of vec_2 panics.
RECURSIVE alternate_loop(_, _, _, _)
alternate_loop(vec_1, vec_2, i, vec_out) ==
    IF i >= Len(vec_1) THEN Returned(vec_out)
    ELSE IF i % 4 = 0
         THEN alternate_loop(vec_1, vec_2, i + 1, Append(vec_out, vec_1[i + 1]))
         ELSE IF i >= Len(vec_2) THEN Panic
              ELSE alternate_loop(vec_1, vec_2, i + 1,
                                  Append(vec_out, vec_2[i + 1]))

\* The loop with `i == 0` for `i % 4 == 0`: only the first byte of the
\* buffer would come from vec_1.
RECURSIVE alternate_loop_first_byte(_, _, _, _)
alternate_loop_first_byte(vec_1, vec_2, i, vec_out) ==
    IF i >= Len(vec_1) THEN Returned(vec_out)
    ELSE IF i = 0
         THEN alternate_loop_first_byte(vec_1, vec_2, i + 1,
                                        Append(vec_out, vec_1[i + 1]))
         ELSE IF i >= Len(vec_2) THEN Panic
              ELSE alternate_loop_first_byte(vec_1, vec_2, i + 1,
                                             Append(vec_out, vec_2[i + 1]))

alternate_pixels_first_byte(vec_1, vec_2) ==
    alternate_loop_first_byte(vec_1, vec_2, 0, <<>>)

alternate_pixels(vec_1, vec_2) == alternate_loop(vec_1, vec_2, 0, <<>>)

\* The capacity a Vec<u8> grown from Vec::new by `len` pushes ends with:
\* 0, or the first of 8, 16, 32, ... that holds len bytes.
RECURSIVE GrowTo(_, _)
GrowTo(cap, len) == IF BigLeq(len, cap) THEN cap ELSE GrowTo(BigAdd(cap, cap), len)

PushedCapacity(len) == IF len = BigZero THEN BigZero ELSE GrowTo(ToBig(8), len)

\* DynamicImage::to_rgba8().into_vec(): width * height * 4 bytes.
to_rgba8_vec(image) ==
    LET len == BigMul(BigMul(image.width, image.height), ToBig(4))
    IN  [len |-> len, cap |-> len,
         pixel |-> IF len = BigZero THEN NoPixel ELSE image.pixel]

\* alternate_pixels on buffers that repeat one pixel each (lengths are
\* multiples of 4): the loop's result on one period, repeated.
alternate_repeated(vec_1, vec_2) ==
    IF BigLess(vec_2.len, vec_1.len) THEN Panic
    ELSE IF vec_1.len = BigZero
         THEN Returned([len |-> BigZero, cap |-> BigZero, pixel |-> NoPixel])
         ELSE Returned([len |-> vec_1.len, cap |-> PushedCapacity(vec_1.len),
                        pixel |-> alternate_pixels(vec_1.pixel, vec_2.pixel).val])

combine_images(image_1, image_2) ==
    alternate_repeated(to_rgba8_vec(image_1), to_rgba8_vec(image_2))

\* ---------------------------------------------------- ImageLoader
\* What a path holds: whether Reader::open succeeds, the format
\* reader.format() reports ("None" when it reports none), whether
\* reader.decode() succeeds, and the image it would decode to.
NoFormat == "None"

\* get_image_from_path with the decode attempted before the format is
\* looked at: a file of no detected format would fail as undecodable.
get_image_from_path_decode_first(file) ==
    IF ~file.readable
    THEN [res |-> Err("UnableToReadImageFromPath", "io::Error"),
          image |-> NoImage, format |-> NoFormat, decoded |-> FALSE]
    ELSE IF ~file.decodable
         THEN [res |-> Err("UnableToDecodeImage", "ImageError"),
               image |-> NoImage, format |-> NoFormat, decoded |-> TRUE]
         ELSE IF file.format = NoFormat
              THEN [res |-> Err("UnableToFormatImage", file.path),
                    image |-> NoImage, format |-> NoFormat, decoded |-> TRUE]
              ELSE [res |-> Ok, image |-> file.image,
                    format |-> file.format, decoded |-> TRUE]

\* get_image_from_path; `decoded` records whether reader.decode() was called.
get_image_from_path(file) ==
    IF ~file.readable
    THEN [res |-> Err("UnableToReadImageFromPath", "io::Error"), image |-> NoImage,
          format |-> NoFormat, decoded |-> FALSE]
    ELSE IF file.format = NoFormat
         THEN [res |-> Err("UnableToFormatImage", file.path), image |-> NoImage,
               format |-> NoFormat, decoded |-> FALSE]
         ELSE IF ~file.decodable
              THEN [res |-> Err("UnableToDecodeImage", "ImageError"), image |-> NoImage,
                    format |-> NoFormat, decoded |-> TRUE]
              ELSE [res |-> Ok, image |-> file.image,
                    format |-> file.format, decoded |-> TRUE]

\* ---------------------------------------------------------- state
VARIABLES
    overflow_checks,  \* the build profile: TRUE debug, FALSE release
    files,            \* what args.image_1 and args.image_2 name on disk
    pc,               \* the stage main runs next, or how it ended
    err,              \* the Result main returns
    trace,            \* the stages run so far, in order
    image_1, image_2, \* main's images (the inputs of a pure call)
    image_format_1, image_format_2,
    output,           \* main's FloatingImage
    combined_data,    \* the buffer combine_images returned
    saved,            \* the file image::save_buffer_with_format wrote
    decodes,          \* how many times reader.decode() was called
    vec_1, vec_2,     \* the inputs of a call of alternate_pixels
    assigns,          \* how many set_data calls were made
    ret               \* the last pure call and what it returned

vars == <<overflow_checks, files, pc, err, trace, image_1, image_2,
          image_format_1, image_format_2, output, combined_data, saved,
          decodes, vec_1, vec_2, assigns, ret>>

\* ------------------------------------------------------- inputs
WideDims == {32768, 65536}

Formats == {"Png", "Jpeg"}

\* The colour of the first image's pixels and of the second's.
ColourA == <<10, 20, 30, 255>>

ColourB == <<60, 70, 80, 90>>

Images(dims, colour) ==
    {[width |-> ToBig(w), height |-> ToBig(h), pixel |-> colour] :
        w \in dims, h \in dims}

Bytes == {0, 255}

\* The byte sequences of length n.
RECURSIVE ByteSeqs(_)
ByteSeqs(n) ==
    IF n = 0 THEN {<<>>}
    ELSE {Append(s, b) : s \in ByteSeqs(n - 1), b \in Bytes}

DimValues == (1 .. MaxDim) \cup {5, 10, 20} \cup WideDims

ImgDimValues == {1, 2} \cup WideDims

\* The buffers handed to set_data: each length, in an allocation of
\* exactly that size or of the largest size drawn.
DataVecs ==
    {[len |-> ToBig(n), cap |-> ToBig(c), pixel |-> ColourA] :
        n \in 0 .. MaxDataLen, c \in {MaxDataLen}} \cup
    {[len |-> ToBig(n), cap |-> ToBig(n), pixel |-> ColourA] :
        n \in 0 .. MaxDataLen}

PipeDimValues == (1 .. MaxPipeDim) \cup WideDims

\* A path that cannot be opened, one with no format, one that does not
\* decode, and the ones that decode to an image.
Files(path, colour) ==
    {[path |-> path, readable |-> FALSE, format |-> NoFormat,
      decodable |-> FALSE, image |-> NoImage]}
    \cup {[path |-> path, readable |-> TRUE, format |-> NoFormat,
           decodable |-> FALSE, image |-> NoImage]}
    \cup {[path |-> path, readable |-> TRUE, format |-> f,
           decodable |-> FALSE, image |-> NoImage] : f \in Formats}
    \cup {[path |-> path, readable |-> TRUE, format |-> f,
           decodable |-> TRUE, image |-> i] :
            f \in Formats, i \in Images(PipeDimValues, colour)}

NoVec == [len |-> BigZero, cap |-> BigZero, pixel |-> <<>>]

NoFile == [name |-> "", width |-> BigZero, height |-> BigZero,
           data |-> NoVec, format |-> NoFormat]

NoRet == [fn |-> "none"]

\* ------------------------------------------------------ pipeline
Stages == <<"LoadA", "LoadB", "FormatCheck", "Reconcile", "Interleave",
            "AssignOutput", "Encode">>

Init ==
    /\ overflow_checks \in BOOLEAN
    /\ files \in [image_1 : Files("a.img", ColourA),
                 image_2 : Files("b.img", ColourB)]
    /\ pc = "LoadA"
    /\ err = Ok
    /\ trace = <<>>
    /\ image_1 = NoImage
    /\ image_2 = NoImage
    /\ image_format_1 = NoFormat
    /\ image_format_2 = NoFormat
    /\ output = NoOutput
    /\ combined_data = NoVec
    /\ saved = NoFile
    /\ decodes = 0
    /\ vec_1 = <<>>
    /\ vec_2 = <<>>
    /\ assigns = 0
    /\ ret = NoRet

\* `?` on an Err: main returns it.
Fail(e) ==
    /\ pc' = "Failed"
    /\ err' = e

\* main, line 48.
LoadA ==
    /\ pc = "LoadA"
    /\ trace' = Append(trace, "LoadA")
    /\ LET r == get_image_from_path(files.image_1)
       IN  /\ decodes' = decodes + (IF r.decoded THEN 1 ELSE 0)
           /\ IF r.res.ok
              THEN /\ image_1' = r.image
                   /\ image_format_1' = r.format
                   /\ pc' = "LoadB"
                   /\ err' = err
              ELSE /\ Fail(r.res)
                   /\ UNCHANGED <<image_1, image_format_1>>
    /\ UNCHANGED <<overflow_checks, files, image_2, image_format_2, output,
                   combined_data, saved, vec_1, vec_2, assigns, ret>>

\* main, line 49.
LoadB ==
    /\ pc = "LoadB"
    /\ trace' = Append(trace, "LoadB")
    /\ LET r == get_image_from_path(files.image_2)
       IN  /\ decodes' = decodes + (IF r.decoded THEN 1 ELSE 0)
           /\ IF r.res.ok
              THEN /\ image_2' = r.image
                   /\ image_format_2' = r.format
                   /\ pc' = "FormatCheck"
                   /\ err' = err
              ELSE /\ Fail(r.res)
                   /\ UNCHANGED <<image_2, image_format_2>>
    /\ UNCHANGED <<overflow_checks, files, image_1, image_format_1, output,
                   combined_data, saved, vec_1, vec_2, assigns, ret>>

\* The format check with the comparison left out: main would go on to
\* reconcile images of different formats.
FormatCheck_skipped ==
    /\ pc = "FormatCheck"
    /\ trace' = Append(trace, "FormatCheck")
    /\ pc' = "Reconcile"
    /\ err' = err
    /\ UNCHANGED <<overflow_checks, files, image_1, image_2, image_format_1,
                   image_format_2, output, combined_data, saved, decodes,
                   vec_1, vec_2, assigns, ret>>

\* main, lines 51-53.
FormatCheck ==
    /\ pc = "FormatCheck"
    /\ trace' = Append(trace, "FormatCheck")
    /\ IF image_format_1 # image_format_2
       THEN Fail(Err("DifferentImageFormats", ""))
       ELSE /\ pc' = "Reconcile"
            /\ err' = err
    /\ UNCHANGED <<overflow_checks, files, image_1, image_2, image_format_1,
                   image_format_2, output, combined_data, saved, decodes,
                   vec_1, vec_2, assigns, ret>>

\* main, lines 55-56: standardize_size, then the output image of the first
\* returned image's dimensions.  A panic in either ends the process.
Reconcile ==
    /\ pc = "Reconcile"
    /\ trace' = Append(trace, "Reconcile")
    /\ LET s == standardize_size(image_1, image_2, overflow_checks)
           o == IF s.panic THEN Panic
                ELSE FloatingImage_new(s.val[1].width, s.val[1].height,
                                       "out.img", overflow_checks)
       IN  IF s.panic
           THEN /\ pc' = "Panicked"
                /\ UNCHANGED <<image_1, image_2, output>>
           ELSE /\ image_1' = s.val[1]
                /\ image_2' = s.val[2]
                /\ IF o.panic
                   THEN /\ pc' = "Panicked"
                        /\ output' = output
                   ELSE /\ pc' = "Interleave"
                        /\ output' = o.val
    /\ UNCHANGED <<overflow_checks, files, err, image_format_1,
                   image_format_2, combined_data, saved, decodes, vec_1,
                   vec_2, assigns, ret>>

\* main, line 57.
Interleave ==
    /\ pc = "Interleave"
    /\ trace' = Append(trace, "Interleave")
    /\ LET c == combine_images(image_1, image_2)
       IN  IF c.panic
           THEN /\ pc' = "Panicked"
                /\ combined_data' = combined_data
           ELSE /\ pc' = "AssignOutput"
                /\ combined_data' = c.val
    /\ UNCHANGED <<overflow_checks, files, err, image_1, image_2,
                   image_format_1, image_format_2, output, saved, decodes,
                   vec_1, vec_2, assigns, ret>>

\* main, line 58.
AssignOutput ==
    /\ pc = "AssignOutput"
    /\ trace' = Append(trace, "AssignOutput")
    /\ LET r == set_data(output, combined_data)
       IN  /\ output' = r.self
           /\ IF r.res.ok
              THEN /\ pc' = "Encode"
                   /\ err' = err
              ELSE Fail(r.res)
    /\ assigns' = assigns + 1
    /\ UNCHANGED <<overflow_checks, files, image_1, image_2, image_format_1,
                   image_format_2, combined_data, saved, decodes, vec_1,
                   vec_2, ret>>

\* main, lines 60-71: the encoder writes the file or fails.
Encode ==
    /\ pc = "Encode"
    /\ trace' = Append(trace, "Encode")
    /\ \E written \in BOOLEAN :
          IF written
          THEN /\ saved' = [name |-> output.name, width |-> output.width,
                            height |-> output.height, data |-> output.data,
                            format |-> image_format_1]
               /\ pc' = "Done"
               /\ err' = Ok
          ELSE /\ saved' = saved
               /\ Fail(Err("UnableToSaveImage", "ImageError"))
    /\ UNCHANGED <<overflow_checks, files, image_1, image_2, image_format_1,
                   image_format_2, output, combined_data, decodes, vec_1,
                   vec_2, assigns, ret>>

Next ==
    \/ LoadA
    \/ LoadB
    \/ FormatCheck
    \/ Reconcile
    \/ Interleave
    \/ AssignOutput
    \/ Encode

Spec == Init /\ [][Next]_vars

\* --------------------------------- the pure functions, called alone
\* get_smallest_dimensions, standardize_size and FloatingImage::new on
\* every pair of images drawn, under both build profiles.
InitDims ==
    /\ overflow_checks \in BOOLEAN
    /\ files = [image_1 |-> 0, image_2 |-> 0]
    /\ pc = "Call"
    /\ err = Ok
    /\ trace = <<>>
    /\ image_1 \in Images(DimValues, ColourA)
    /\ image_2 \in Images(DimValues, ColourB)
    /\ image_format_1 = NoFormat
    /\ image_format_2 = NoFormat
    /\ output = NoOutput
    /\ combined_data = NoVec
    /\ saved = NoFile
    /\ decodes = 0
    /\ vec_1 = <<>>
    /\ vec_2 = <<>>
    /\ assigns = 0
    /\ ret = NoRet

Call(fn, out) ==
    /\ pc = "Call"
    /\ pc' = IF out.panic THEN "Panicked" ELSE "Returned"
    /\ ret' = [fn |-> fn, out |-> out]

CallGetSmallestDimensions ==
    /\ Call("get_smallest_dimensions",
            get_smallest_dimensions(dimensions(image_1), dimensions(image_2),
                                    overflow_checks))
    /\ UNCHANGED <<overflow_checks, files, err, trace, image_1, image_2,
                   image_format_1, image_format_2, output, combined_data,
                   saved, decodes, vec_1, vec_2, assigns>>

CallStandardizeSize ==
    /\ Call("standardize_size",
            standardize_size(image_1, image_2, overflow_checks))
    /\ UNCHANGED <<overflow_checks, files, err, trace, image_1, image_2,
                   image_format_1, image_format_2, output, combined_data,
                   saved, decodes, vec_1, vec_2, assigns>>

CallNew ==
    /\ Call("FloatingImage::new",
            FloatingImage_new(image_1.width, image_1.height, "out.img",
                              overflow_checks))
    /\ UNCHANGED <<overflow_checks, files, err, trace, image_1, image_2,
                   image_format_1, image_format_2, output, combined_data,
                   saved, decodes, vec_1, vec_2, assigns>>

NextDims ==
    \/ CallGetSmallestDimensions
    \/ CallStandardizeSize
    \/ CallNew

SpecDims == InitDims /\ [][NextDims]_vars

\* alternate_pixels on every pair of byte buffers drawn: of equal length,
\* or the second one byte shorter or longer.
InitPixels ==
    /\ overflow_checks = FALSE
    /\ files = [image_1 |-> 0, image_2 |-> 0]
    /\ pc = "Call"
    /\ err = Ok
    /\ trace = <<>>
    /\ image_1 = NoImage
    /\ image_2 = NoImage
    /\ image_format_1 = NoFormat
    /\ image_format_2 = NoFormat
    /\ output = NoOutput
    /\ combined_data = NoVec
    /\ saved = NoFile
    /\ decodes = 0
    /\ \E n \in 0 .. MaxVecLen :
          /\ vec_1 \in ByteSeqs(n)
          /\ \E m \in {n - 1, n, n + 1} \cap (0 .. MaxVecLen) :
                vec_2 \in ByteSeqs(m)
    /\ assigns = 0
    /\ ret = NoRet

CallAlternatePixels ==
    /\ Call("alternate_pixels", alternate_pixels(vec_1, vec_2))
    /\ UNCHANGED <<overflow_checks, files, err, trace, image_1, image_2,
                   image_format_1, image_format_2, output, combined_data,
                   saved, decodes, vec_1, vec_2, assigns>>

NextPixels == CallAlternatePixels

SpecPixels == InitPixels /\ [][NextPixels]_vars

\* FloatingImage::new, then set_data calls with every buffer drawn.
InitImage ==
    /\ overflow_checks \in BOOLEAN
    /\ files = [image_1 |-> 0, image_2 |-> 0]
    /\ pc = "New"
    /\ err = Ok
    /\ trace = <<>>
    /\ image_1 = NoImage
    /\ image_2 = NoImage
    /\ image_format_1 = NoFormat
    /\ image_format_2 = NoFormat
    /\ output = NoOutput
    /\ combined_data = NoVec
    /\ saved = NoFile
    /\ decodes = 0
    /\ vec_1 = <<>>
    /\ vec_2 = <<>>
    /\ assigns = 0
    /\ ret = NoRet

NewOutput ==
    /\ pc = "New"
    /\ \E w \in ImgDimValues, h \in ImgDimValues :
          LET o == FloatingImage_new(ToBig(w), ToBig(h), "out.img",
                                     overflow_checks)
          IN  IF o.panic
              THEN /\ pc' = "Panicked"
                   /\ output' = output
              ELSE /\ pc' = "Assign"
                   /\ output' = o.val
    /\ UNCHANGED <<overflow_checks, files, err, trace, image_1, image_2,
                   image_format_1, image_format_2, combined_data, saved,
                   decodes, vec_1, vec_2, assigns, ret>>

SetData ==
    /\ pc = "Assign"
    /\ assigns < MaxAssigns
    /\ \E data \in DataVecs :
          LET r == set_data(output, data)
          IN  /\ output' = r.self
              /\ ret' = [fn |-> "set_data", arg |-> data, out |-> r.res]
    /\ assigns' = assigns + 1
    /\ UNCHANGED <<overflow_checks, files, pc, err, trace, image_1, image_2,
                   image_format_1, image_format_2, combined_data, saved,
                   decodes, vec_1, vec_2>>

NextImage ==
    \/ NewOutput
    \/ SetData

SpecImage == InitImage /\ [][NextImage]_vars

\* ------------------------------------------------------- properties
\* The number of pixels of a dimension pair, and the number of bytes of an
\* RGBA8 buffer of a width and a height, as unbounded products.
TruePixels(dim) == BigMul(dim[1], dim[2])

TrueSize(width, height) == BigMul(BigMul(width, height), ToBig(4))

dim_1 == dimensions(image_1)

dim_2 == dimensions(image_2)

Tie == TruePixels(dim_1) = TruePixels(dim_2)

ReturnedFrom(fn) == ret.fn = fn /\ ~ret.out.panic

\* C1, as claimed: on an exact tie in total pixel count, get_smallest_dimensions
\* returns the first image's dimensions and standardize_size resizes both
\* images to them.
C1_FirstWinsOnTie ==
    /\ (ReturnedFrom("get_smallest_dimensions") /\ Tie) => ret.out.val = dim_1
    /\ (ReturnedFrom("standardize_size") /\ Tie) =>
           /\ dimensions(ret.out.val[1]) = dim_1
           /\ dimensions(ret.out.val[2]) = dim_1

\* C1, amended: on an exact tie in total pixel count, whenever size
\* reconciliation returns, it is the SECOND image's dimensions that
\* get_smallest_dimensions returns and standardize_size resizes both images
\* to (10x10 and 20x5 give 20x5).
C1_SecondWinsOnTie ==
    /\ (ReturnedFrom("get_smallest_dimensions") /\ Tie) => ret.out.val = dim_2
    /\ (ReturnedFrom("standardize_size") /\ Tie) =>
           /\ dimensions(ret.out.val[1]) = dim_2
           /\ dimensions(ret.out.val[2]) = dim_2

C1_Witness ==
    /\ ReturnedFrom("get_smallest_dimensions")
    /\ dim_1 = <<ToBig(10), ToBig(10)>>
    /\ dim_2 = <<ToBig(20), ToBig(5)>>
    /\ Tie
    /\ ret.out.val = <<ToBig(20), ToBig(5)>>

\* C2, as claimed: for all dimension pairs, standardize_size returns two
\* images of the same width and height, and that pair is the dimension pair
\* of an input whose width*height is at most the other's.
C2_SharedSmallest ==
    ReturnedFrom("standardize_size") =>
        /\ dimensions(ret.out.val[1]) = dimensions(ret.out.val[2])
        /\ \/ /\ dimensions(ret.out.val[1]) = dim_1
              /\ BigLeq(TruePixels(dim_1), TruePixels(dim_2))
           \/ /\ dimensions(ret.out.val[1]) = dim_2
              /\ BigLeq(TruePixels(dim_2), TruePixels(dim_1))

\* C9, as claimed: for every width and height FloatingImage::new returns an
\* image whose capacity is at least the true product width*height*4, with
\* no elements and the width, height and name given; and
\* get_smallest_dimensions compares the true products width*height.
C9_NoWrapAround ==
    /\ ret.fn = "FloatingImage::new" =>
           /\ ~ret.out.panic
           /\ BigLeq(TrueSize(image_1.width, image_1.height),
                     ret.out.val.data.cap)
           /\ ret.out.val.data.len = BigZero
           /\ ret.out.val.width = image_1.width
           /\ ret.out.val.height = image_1.height
           /\ ret.out.val.name = "out.img"
    /\ ret.fn = "get_smallest_dimensions" =>
           /\ ~ret.out.panic
           /\ ret.out.val = IF BigLess(TruePixels(dim_1), TruePixels(dim_2))
                            THEN dim_1 ELSE dim_2

\* C3: for equal-length buffers of length 4n (n = 0 included),
\* alternate_pixels returns a buffer of that length whose byte i is
\* vec_1's when i mod 4 = 0 and vec_2's otherwise.
C3_Interleaved ==
    (ret.fn = "alternate_pixels" /\ Len(vec_1) = Len(vec_2)
                                 /\ Len(vec_1) % 4 = 0) =>
        /\ ~ret.out.panic
        /\ Len(ret.out.val) = Len(vec_1)
        /\ \A i \in 0 .. Len(vec_1) - 1 :
              ret.out.val[i + 1] = IF i % 4 = 0 THEN vec_1[i + 1]
                                   ELSE vec_2[i + 1]

C3_Witness ==
    /\ ReturnedFrom("alternate_pixels")
    /\ vec_1 = <<0, 0, 0, 0, 255, 255, 255, 255>>
    /\ vec_2 = <<255, 255, 255, 255, 0, 0, 0, 0>>
    /\ ret.out.val = <<0, 255, 255, 255, 255, 0, 0, 0>>

\* C4, as claimed: the first set_data on a freshly constructed image of
\* dimensions (width, height) succeeds exactly when the buffer's length is
\* at most width*height*4 and fails with BufferTooSmall otherwise; on
\* success the image's buffer is the assigned buffer.
C4_AssignIffFits ==
    (ret.fn = "set_data" /\ assigns = 1) =>
        /\ ret.out.ok <=>
               BigLeq(ret.arg.len, TrueSize(output.width, output.height))
        /\ ~ret.out.ok => ret.out = Err("BufferTooSmall", "")
        /\ ret.out.ok => output.data = ret.arg

\* C5, as claimed: after any sequence of set_data calls the buffer the
\* image holds is never longer than width*height*4, the capacity computed
\* at construction.
C5_NeverExceedsCapacity ==
    pc = "Assign" =>
        BigLeq(output.data.len, TrueSize(output.width, output.height))

\* C6: when both inputs load and their format tags differ, main fails with
\* DifferentImageFormats at the format check, and no reconcile, interleave,
\* assign or encode step runs: nothing is resized and no file is written.
BothLoad ==
    /\ get_image_from_path(files.image_1).res.ok
    /\ get_image_from_path(files.image_2).res.ok

FormatsDiffer == files.image_1.format # files.image_2.format

IsPrefix(s, t) == Len(s) <= Len(t) /\ \A i \in 1 .. Len(s) : s[i] = t[i]

C6_MismatchFailsBeforePixelWork ==
    (BothLoad /\ FormatsDiffer) =>
        /\ IsPrefix(trace, <<"LoadA", "LoadB", "FormatCheck">>)
        /\ pc \in {"LoadA", "LoadB", "FormatCheck", "Failed"}
        /\ Len(trace) = 3 =>
               pc = "Failed" /\ err = Err("DifferentImageFormats", "")
        /\ pc = "Failed" => Len(trace) = 3
        /\ image_1 \in {NoImage, files.image_1.image}
        /\ image_2 \in {NoImage, files.image_2.image}
        /\ output = NoOutput
        /\ combined_data = NoVec
        /\ assigns = 0
        /\ saved = NoFile

C6_Witness ==
    /\ BothLoad
    /\ FormatsDiffer
    /\ dimensions(files.image_1.image) # dimensions(files.image_2.image)
    /\ pc = "Failed"
    /\ err = Err("DifferentImageFormats", "")

\* The error kinds each stage can fail with.
StageErrors(stage) ==
    CASE stage \in {"LoadA", "LoadB"} ->
             {"UnableToReadImageFromPath", "UnableToFormatImage",
              "UnableToDecodeImage"}
      [] stage = "FormatCheck" -> {"DifferentImageFormats"}
      [] stage = "AssignOutput" -> {"BufferTooSmall"}
      [] stage = "Encode" -> {"UnableToSaveImage"}
      [] OTHER -> {}

\* C7, as claimed: the stages run in the fixed order LoadA, LoadB,
\* FormatCheck, Reconcile, Interleave, AssignOutput, Encode, each at most
\* once; a failing stage ends the run in Failed with that stage's error
\* and no later stage runs; every run ends in Done or in Failed.
C7_LinearPipeline ==
    /\ IsPrefix(trace, Stages)
    /\ \/ /\ Len(trace) < Len(Stages)
          /\ pc = Stages[Len(trace) + 1]
          /\ err = Ok
       \/ /\ pc = "Done"
          /\ trace = Stages
          /\ err = Ok
       \/ /\ pc = "Failed"
          /\ Len(trace) > 0
          /\ ~err.ok
          /\ err.err \in StageErrors(trace[Len(trace)])

\* C8: get_image_from_path gives exactly one outcome per file:
\* UnableToReadImageFromPath when it cannot be opened; else
\* UnableToFormatImage with the path when no format is detected, with no
\* decode attempted; else UnableToDecodeImage when decoding fails; else the
\* decoded image with its format.  An image never comes without a format.
LoadOutcome(file, loaded, image, format, result, decoded) ==
    IF ~loaded
    THEN image = NoImage /\ format = NoFormat
    ELSE /\ (image = NoImage) <=> (format = NoFormat)
         /\ CASE ~file.readable ->
                     /\ result = Err("UnableToReadImageFromPath", "io::Error")
                     /\ image = NoImage
                     /\ ~decoded
              [] file.readable /\ file.format = NoFormat ->
                     /\ result = Err("UnableToFormatImage", file.path)
                     /\ image = NoImage
                     /\ ~decoded
              [] file.readable /\ file.format # NoFormat /\ ~file.decodable ->
                     /\ result = Err("UnableToDecodeImage", "ImageError")
                     /\ image = NoImage
                     /\ decoded
              [] OTHER ->
                     /\ result = Ok
                     /\ format = file.format
                     /\ format \in Formats
                     /\ dimensions(image) = dimensions(file.image)
                     /\ decoded

C8_LoadClassifies ==
    /\ Len(trace) = 1 =>
           LoadOutcome(files.image_1, TRUE, image_1, image_format_1, err,
                       decodes = 1)
    /\ Len(trace) = 0 =>
           LoadOutcome(files.image_1, FALSE, image_1, image_format_1, err,
                       FALSE)
    /\ Len(trace) = 2 =>
           LoadOutcome(files.image_2, TRUE, image_2, image_format_2, err,
                       decodes = 2)
    /\ Len(trace) < 2 =>
           LoadOutcome(files.image_2, FALSE, image_2, image_format_2, err,
                       FALSE)

C8_Witness ==
    /\ trace = <<"LoadA", "LoadB">>
    /\ pc = "Failed"
    /\ err = Err("UnableToFormatImage", "b.img")
    /\ image_1 # NoImage
    /\ decodes = 1

\* C10: in a run that passes the format check and whose output dimensions
\* have width*height*4 within 32 bits, the interleaved buffer is exactly
\* output.width * output.height * 4 bytes long, set_data accepts it
\* (BufferTooSmall never comes out of main) and the buffer handed to the
\* encoder has the length of the dimensions handed to it.
FitsU32(n) == n[1] < Base

OutputFits ==
    /\ output # NoOutput
    /\ FitsU32(TrueSize(output.width, output.height))

C10_BufferMatchesOutput ==
    OutputFits =>
        /\ Len(trace) >= 5 =>
               /\ pc # "Panicked"
               /\ combined_data.len = TrueSize(output.width, output.height)
               /\ dimensions(image_1) = <<output.width, output.height>>
        /\ Len(trace) >= 6 =>
               /\ pc \in {"Encode", "Done", "Failed"}
               /\ err.err # "BufferTooSmall"
               /\ output.data = combined_data
        /\ saved # NoFile =>
               /\ saved.data.len = TrueSize(saved.width, saved.height)
               /\ <<saved.width, saved.height>> = <<output.width, output.height>>

C10_Witness ==
    /\ pc = "Done"
    /\ dimensions(files.image_1.image) = <<ToBig(2), ToBig(2)>>
    /\ dimensions(files.image_2.image) = <<ToBig(1), ToBig(2)>>
    /\ saved.data.len = ToBig(8)
    /\ saved.data.pixel = <<10, 70, 80, 90>>
    /\ <<saved.width, saved.height>> = <<ToBig(1), ToBig(2)>>

\* ----------------------------------------- what holds beside C2-C9
\* The products of a width and a height, and of an image's byte size, fit
\* 32 bits.
PixelsFit(dim) == FitsU32(TruePixels(dim))

\* C2 where both pixel counts fit 32 bits.
C2_SharedSmallest_WhereFits ==
    (PixelsFit(dim_1) /\ PixelsFit(dim_2)) => C2_SharedSmallest

\* C4 where width*height*4 fits 32 bits.
C4_AssignIffFits_WhereFits ==
    FitsU32(TrueSize(output.width, output.height)) => C4_AssignIffFits

\* C7 in a build without overflow checks, where no product panics.
C7_LinearPipeline_Release == ~overflow_checks => C7_LinearPipeline

\* C7 up to the panic: a run is linear until it ends in Done, in Failed or
\* in a panic of an overflowing product at Reconcile.
C7_LinearUnlessPanic ==
    IF pc = "Panicked"
    THEN /\ overflow_checks
         /\ trace = <<"LoadA", "LoadB", "FormatCheck", "Reconcile">>
         /\ \/ ~PixelsFit(dim_1)
            \/ ~PixelsFit(dim_2)
            \/ ~FitsU32(TrueSize(image_1.width, image_1.height))
    ELSE C7_LinearPipeline

\* C9 where width*height*4 and both pixel counts fit 32 bits.
C9_NoWrapAround_WhereFits ==
    (/\ FitsU32(TrueSize(image_1.width, image_1.height))
     /\ PixelsFit(dim_1)
     /\ PixelsFit(dim_2)) => C9_NoWrapAround

====
